---- MODULE Spec2Model ----
(* A state-machine model of the ovConnectSample repository:                *)
(*   - source/pyHelloWorld/helloWorld.py: the main pipeline, save_stage,   *)
(*     the live-edit loop and the callbacks registered with omni.client;   *)
(*   - omni/asset_validator/core/usdGeomSubset.py and                      *)
(*     usdMaterialBindingApi.py: the two validator rules;                  *)
(*   - tests/test_all.py: the hello-world harness tests.                   *)
EXTENDS Integers, Sequences, FiniteSets, TLC

VARIABLES
    \* ---- helloWorld.py: process ----
    args,               \* parsed command line (argparse namespace)
    pc,                 \* position of the main script
    exitCode,           \* <<>> while the process runs, then <<status>>
    lastLog,            \* tag of the last line written by LOGGER / sys.exit
    done,               \* pipeline functions that have returned, in order
    \* ---- helloWorld.py: module globals and main's locals ----
    g_connection_status_subscription,
    g_stage,
    destination_path,
    stageUrl,
    boxMesh,
    loggerDebug,        \* LOGGER.setLevel(logging.DEBUG) has been called
    \* ---- omni.client / usd_resolver / server as seen by the script ----
    clientState,        \* "off", "initialized", "shutdown"
    callbackRegistered, \* the library still holds connectionStatusCallback
    checkpointMessage,
    files,              \* URLs (path strings) present on the server
    stageFile,          \* prims of the stage file as last saved on the server
    lastCheckpoint,     \* checkpoint message in force at the last layer Save
    \* ---- save_stage ----
    savePc,             \* "none" or the position inside save_stage
    saveComment,
    \* ---- run_live_edit ----
    angle,
    join_request,       \* "None" or "request"
    keys,               \* characters returned by getChar so far
    sent,               \* send_message_with_callback calls
    pendingSends,       \* sends whose on_send_message_cb has not run yet
    stopCalls,          \* join_request.stop() calls
    \* ---- SDK failures (history) ----
    failed,             \* some SDK call of the run has failed
    stepCalls,          \* the SDK calls of the last step, in order, each with its outcome
    \* ---- validator rules ----
    vStage,             \* prim name -> prim, the stage handed to the rules
    failedChecks,       \* sequence of [rule, at] added by _AddFailedCheck
    vLast,              \* the last rule operation: [op, rule, prim, before, added]
                        \*   before: vStage before it; added: failed checks it added
    \* ---- tests/test_all.py ----
    tTest,              \* "cpp" or "py"
    tPc,                \* position of the test function
    tRan,               \* shell scripts run so far, in order
    tCodes,             \* return codes the three scripts will give
    tOutput,            \* lines the validator prints
    tLine,              \* index of the next line the loop inspects
    tResult             \* "running", "passed", "failed"

helloVars == <<args, pc, exitCode, lastLog, done, g_connection_status_subscription,
               g_stage, destination_path, stageUrl, boxMesh, loggerDebug, clientState,
               callbackRegistered, checkpointMessage, files, stageFile,
               lastCheckpoint, savePc, saveComment, angle, join_request, keys, sent,
               pendingSends, stopCalls, failed, stepCalls>>
validatorVars == <<vStage, failedChecks, vLast>>
harnessVars == <<tTest, tPc, tRan, tCodes, tOutput, tLine, tResult>>
vars == <<helloVars, validatorVars, harnessVars>>

-----------------------------------------------------------------------------
(* Bounds *)

MaxKeys == 3            \* characters read by the live-edit loop
MaxChecks == 2          \* CheckPrim calls of one validation run
MaxProps == 2           \* properties on the prim handed to a rule
MaxLines == 2           \* lines of validator output in the harness model

-----------------------------------------------------------------------------
(* URLs: break_url is the client library's; a URL is kept as its scheme and *)
(* the text after it, and "+" on a URL appends to that text.               *)

NoUrl == [scheme |-> "", path |-> ""]
\* argparse's None, the value of an option without default that was not given
NoneUrl == [scheme |-> "None", path |-> ""]
BaseUrl == [scheme |-> "omniverse", path |-> "//localhost/Projects/samplesTest"]
LocalStage == [scheme |-> "", path |-> "C:/Path/To/Stage/helloWorld_py.usd"]
UsersUrl == [scheme |-> "omniverse", path |-> "//localhost/Users"]

Cat(url, s) == [scheme |-> url.scheme, path |-> url.path \o s]

\* `not url` / `not bool(url)`: None and the empty string are both false
IsEmptyUrl(url) == url = NoneUrl \/ url = NoUrl

isValidOmniUrl(url) == url.scheme = "omniverse" \/ url.scheme = "omni"

StageUrlLive_mut(path, live_edit) == Cat(path, "/helloworld_py" \o ".live")

\* createOmniverseModel, line 98
StageUrlFor(path, live_edit) ==
    Cat(path, "/helloworld_py" \o (IF live_edit THEN ".live" ELSE ".usd"))

ExistingStageUrl == Cat(BaseUrl, "/helloworld_py.usd")

LiveEditFlagOnly_mut(a) == a.live

\* __main__, line 708
LiveEdit(a) == a.live \/ ~IsEmptyUrl(a.existing)

ExitStatus(n) == n % 256

-----------------------------------------------------------------------------
(* Prims *)

Prim(type) == [type |-> type, apis |-> {}, approximation |-> "", size |-> 0,
               extent |-> FALSE, kind |-> "", rotY |-> 0, material |-> ""]

DefaultPrimPath == "/World"

\* The stage as createOmniverseModel leaves it
NewStagePrims == [p \in {DefaultPrimPath} |-> [Prim("Xform") EXCEPT !.kind = "assembly"]]

EmptyPrims == [p \in {} |-> Prim("")]

\* g_stage = None
NoStage == [url |-> NoUrl, prims |-> EmptyPrims]

Put(prims, path, prim) ==
    [p \in DOMAIN prims \cup {path} |-> IF p = path THEN prim ELSE prims[p]]

enablePhysicsUnchecked_mut(prim, dynamic, collisionOk) ==
    LET p1 == IF dynamic THEN [prim EXCEPT !.apis = @ \cup {"PhysicsRigidBodyAPI"}]
                         ELSE prim
        p2 == IF collisionOk THEN [p1 EXCEPT !.apis = @ \cup {"PhysicsCollisionAPI"}] ELSE p1
        p3 == IF p2.type = "Mesh"
              THEN [p2 EXCEPT !.apis = @ \cup {"PhysicsMeshCollisionAPI"},
                              !.approximation = IF dynamic THEN "convexHull" ELSE "none"]
              ELSE p2
    IN  [prim |-> p3, ok |-> TRUE]

enablePhysicsHullAlways_mut(prim, dynamic, collisionOk) ==
    LET p1 == IF dynamic THEN [prim EXCEPT !.apis = @ \cup {"PhysicsRigidBodyAPI"}]
                         ELSE prim
        p2 == [p1 EXCEPT !.apis = @ \cup {"PhysicsCollisionAPI"}]
        p3 == IF p2.type = "Mesh"
              THEN [p2 EXCEPT !.apis = @ \cup {"PhysicsMeshCollisionAPI"},
                              !.approximation = "convexHull"]
              ELSE p2
    IN  IF collisionOk THEN [prim |-> p3, ok |-> TRUE] ELSE [prim |-> p1, ok |-> FALSE]

\* enablePhysics, lines 146-164: the prim after the call, and whether the call
\* returned (CollisionAPI.Apply succeeded) or ended the process at line 155
enablePhysics(prim, dynamic, collisionOk) ==
    LET p1 == IF dynamic THEN [prim EXCEPT !.apis = @ \cup {"PhysicsRigidBodyAPI"}]
                         ELSE prim
        p2 == [p1 EXCEPT !.apis = @ \cup {"PhysicsCollisionAPI"}]
        p3 == IF p2.type = "Mesh"
              THEN [p2 EXCEPT !.apis = @ \cup {"PhysicsMeshCollisionAPI"},
                              !.approximation = IF dynamic THEN "convexHull" ELSE "none"]
              ELSE p2
    IN  IF collisionOk THEN [prim |-> p3, ok |-> TRUE] ELSE [prim |-> p1, ok |-> FALSE]

\* findGeomMesh, lines 336-338: the first Mesh of the traversal
Meshes(prims) == {p \in DOMAIN prims : prims[p].type = "Mesh"}

-----------------------------------------------------------------------------
(* helloWorld.py: bookkeeping shared by the actions *)

liveV == <<angle, join_request, keys, sent, pendingSends, stopCalls>>
saveV == <<savePc, saveComment, checkpointMessage, lastCheckpoint>>
serverV == <<files, stageFile>>
clientV == <<clientState, callbackRegistered, g_connection_status_subscription>>
failV == <<failed, stepCalls>>
otherV == <<validatorVars, harnessVars>>

Running == pc # "exited"
MainAt(p) == pc = p /\ savePc = "none"

\* sys.exit(msg) / sys.exit(n) / exit(n) / an uncaught exception
Exit(code, msg) ==
    /\ pc' = "exited"
    /\ exitCode' = <<ExitStatus(code)>>
    /\ lastLog' = msg
    /\ UNCHANGED done

\* A function of the pipeline returns to __main__
Return(name, next, msg) ==
    /\ pc' = next
    /\ done' = Append(done, name)
    /\ lastLog' = msg
    /\ UNCHANGED exitCode

Call(name, ok) == [name |-> name, ok |-> ok]

\* The SDK calls a step makes, in order, up to the one that ends the process
Track(calls) ==
    /\ stepCalls' = calls
    /\ failed' = (failed \/ \E i \in 1..Len(calls) : ~calls[i].ok)

\* A call of save_stage(stageUrl, comment): the actions Save* below run it
CallSave(comment) ==
    /\ savePc' = "set_checkpoint_message"
    /\ saveComment' = comment
    /\ UNCHANGED <<checkpointMessage, lastCheckpoint>>

InStage(path, prim) == g_stage' = [g_stage EXCEPT !.prims = Put(@, path, prim)]

-----------------------------------------------------------------------------
(* helloWorld.py: startOmniverse, shutdownOmniverse and the start of __main__ *)

\* The module global after startOmniverse has run with the subscription `sub`
\* returned by register_connection_status_callback: the function has no
\* `global` statement, so line 75 binds a local name and the global keeps g.
GlobalAfterStart(g, sub) == g

\* The module global after line 81 of shutdownOmniverse (a local name again)
GlobalAfterShutdown(g) == g

\* startOmniverse, lines 67-75, up to the registration of line 75
startOmniverse ==
    /\ MainAt("startOmniverse")
    /\ \E initOk \in BOOLEAN :
          /\ Track(<<Call("initialize", initOk)>>)
          /\ IF ~initOk
             THEN /\ Exit(1, "[ERROR] Unable to initialize Omniverse client, exiting.")
                  /\ UNCHANGED clientV
             ELSE /\ clientState' = "initialized"
                  /\ g_connection_status_subscription' =
                        GlobalAfterStart(g_connection_status_subscription, "subscription")
                  /\ callbackRegistered' = TRUE
                  /\ pc' = "startOmniverseReturn"
                  /\ UNCHANGED <<exitCode, lastLog, done>>
    /\ UNCHANGED <<args, g_stage, destination_path, stageUrl, boxMesh, loggerDebug,
                   serverV, saveV, liveV, otherV>>

\* startOmniverse returns: its local names are released. A subscription that
\* no name refers to any more is destroyed, which unregisters its callback.
startOmniverseReturn ==
    /\ MainAt("startOmniverseReturn")
    /\ Track(<<>>)
    /\ callbackRegistered' = (g_connection_status_subscription = "subscription")
    /\ Return("startOmniverse", "resolveDestination", lastLog)
    /\ UNCHANGED <<args, g_stage, destination_path, stageUrl, boxMesh, loggerDebug,
                   clientState, g_connection_status_subscription, serverV, saveV, liveV,
                   otherV>>

resolveDestinationNoCheck_mut ==
    /\ MainAt("resolveDestination")
    /\ LET next == IF IsEmptyUrl(args.existing) THEN "createOmniverseModel"
                                                ELSE "findGeomMesh"
       IN  IF IsEmptyUrl(args.existing) /\ IsEmptyUrl(destination_path)
           THEN \E user_name \in {"", "user"} :
                   /\ Track(<<Call("get_server_info", user_name # "")>>)
                   /\ destination_path' = Cat(UsersUrl, "/" \o user_name)
                   /\ Return("resolveDestination", next, "No output path specified")
           ELSE /\ Track(<<>>)
                /\ UNCHANGED destination_path
                /\ Return("resolveDestination", next, lastLog)
    /\ UNCHANGED <<args, g_stage, stageUrl, boxMesh, loggerDebug, clientV, serverV,
                   saveV, liveV, otherV>>

\* __main__, lines 715-737
resolveDestination ==
    /\ MainAt("resolveDestination")
    /\ LET next == IF IsEmptyUrl(args.existing) THEN "createOmniverseModel"
                                                ELSE "findGeomMesh"
           warn(dest) == \/ (~IsEmptyUrl(dest) /\ ~isValidOmniUrl(dest))
                         \/ (~IsEmptyUrl(args.existing) /\ ~isValidOmniUrl(args.existing))
           log(dest, other) == IF warn(dest) THEN "This is not an Omniverse Nucleus URL"
                                             ELSE other
       IN  IF IsEmptyUrl(args.existing) /\ IsEmptyUrl(destination_path)
           THEN \E user_name \in {"", "user"} :
                   /\ Track(<<Call("get_server_info", user_name # "")>>)
                   /\ IF user_name = ""
                      THEN /\ Exit(-1, "Cannot access directory")
                           /\ UNCHANGED destination_path
                      ELSE /\ destination_path' = Cat(UsersUrl, "/" \o user_name)
                           /\ Return("resolveDestination", next,
                                     log(destination_path', "No output path specified"))
           ELSE /\ Track(<<>>)
                /\ UNCHANGED destination_path
                /\ Return("resolveDestination", next, log(destination_path, lastLog))
    /\ UNCHANGED <<args, g_stage, stageUrl, boxMesh, loggerDebug, clientV, serverV,
                   saveV, liveV, otherV>>

\* shutdownOmniverse, lines 78-83, and the end of the script (or sys.exit(), line 786)
shutdownOmniverse ==
    /\ MainAt("shutdownOmniverse")
    /\ Track(<<Call("shutdown", TRUE)>>)
    /\ g_connection_status_subscription' = GlobalAfterShutdown(g_connection_status_subscription)
    /\ clientState' = "shutdown"
    /\ callbackRegistered' = FALSE
    /\ pc' = "exited"
    /\ exitCode' = <<ExitStatus(0)>>
    /\ done' = Append(done, "shutdownOmniverse")
    /\ UNCHANGED <<args, lastLog, g_stage, destination_path, stageUrl, boxMesh, loggerDebug,
                   serverV, saveV, liveV, otherV>>

-----------------------------------------------------------------------------
(* helloWorld.py: the creation pipeline of __main__, lines 739-776 *)

World(name) == DefaultPrimPath \o "/" \o name

\* createOmniverseModel, lines 93-119
createOmniverseModel ==
    /\ MainAt("createOmniverseModel")
    /\ \E delOk \in BOOLEAN :
          /\ Track(<<Call("delete", delOk), Call("CreateNew", TRUE)>>)
          /\ stageUrl' = StageUrlFor(destination_path, LiveEdit(args))
          /\ files' = IF delOk THEN files \ {stageUrl'.path} ELSE files
          /\ g_stage' = [url |-> stageUrl', prims |-> NewStagePrims]
          /\ Return("createOmniverseModel", "logConnectedUsername", "Created stage")
    /\ UNCHANGED <<args, destination_path, boxMesh, loggerDebug, clientV, stageFile,
                   saveV, liveV, otherV>>

\* logConnectedUsername(stageUrl), lines 122-130, called at line 744
logConnectedUsername ==
    /\ MainAt("logConnectedUsername")
    /\ \E username \in {"", "user"} :
          /\ Track(<<Call("get_server_info", username # "")>>)
          /\ Return("logConnectedUsername", "createPhysicsScene",
                    IF username # "" THEN "Connected username" ELSE lastLog)
    /\ UNCHANGED <<args, g_stage, destination_path, stageUrl, boxMesh, loggerDebug,
                   clientV, serverV, saveV, liveV, otherV>>

\* createPhysicsScene, lines 133-144
createPhysicsScene ==
    /\ MainAt("createPhysicsScene")
    /\ Track(<<Call("Define", TRUE)>>)
    /\ InStage(World("physicsScene"), Prim("PhysicsScene"))
    /\ Return("createPhysicsScene", "createBox", lastLog)
    /\ UNCHANGED <<args, destination_path, stageUrl, boxMesh, loggerDebug, clientV,
                   serverV, saveV, liveV, otherV>>

\* createBox, lines 280-324. An invalid boxPrim ends the process, by the check
\* of line 305 or by the exception of an attribute call on it before that.
createBox ==
    /\ MainAt("createBox")
    /\ \E defOk \in BOOLEAN, collOk \in BOOLEAN :
          LET box == [Prim("Mesh") EXCEPT !.extent = TRUE]
              phys == enablePhysics(box, TRUE, collOk)
          IN  IF ~defOk
              THEN /\ Track(<<Call("Define", FALSE)>>)
                   /\ Exit(1, "[ERROR] Failure to create box")
                   /\ UNCHANGED <<g_stage, boxMesh, saveV>>
              ELSE /\ Track(<<Call("Define", TRUE), Call("CollisionAPI.Apply", collOk)>>)
                   /\ IF ~phys.ok
                      THEN /\ Exit(1, "Failed to apply UsdPhysics.CollisionAPI")
                           /\ InStage(World("box_0"), phys.prim)
                           /\ UNCHANGED <<boxMesh, saveV>>
                      ELSE /\ InStage(World("box_0"), [phys.prim EXCEPT !.kind = "component"])
                           /\ boxMesh' = World("box_0")
                           /\ CallSave("Created a box.")
                           /\ Return("createBox", "createDynamicCube", lastLog)
    /\ UNCHANGED <<args, destination_path, stageUrl, loggerDebug, clientV, serverV,
                   liveV, otherV>>

\* createDynamicCube, lines 167-190
createDynamicCube ==
    /\ MainAt("createDynamicCube")
    /\ \E defOk \in BOOLEAN, collOk \in BOOLEAN :
          LET cube == [Prim("Cube") EXCEPT !.size = 100, !.extent = TRUE]
              phys == enablePhysics(cube, TRUE, collOk)
          IN  IF ~defOk
              THEN /\ Track(<<Call("Define", FALSE)>>)
                   /\ Exit(1, "[ERROR] Failure to create cube")
                   /\ UNCHANGED <<g_stage, saveV>>
              ELSE /\ Track(<<Call("Define", TRUE), Call("CollisionAPI.Apply", collOk)>>)
                   /\ IF ~phys.ok
                      THEN /\ Exit(1, "Failed to apply UsdPhysics.CollisionAPI")
                           /\ InStage(World("cube"), phys.prim)
                           /\ UNCHANGED saveV
                      ELSE /\ InStage(World("cube"), [phys.prim EXCEPT !.kind = "component"])
                           /\ CallSave("Created a dynamic cube.")
                           /\ Return("createDynamicCube",
                                     IF args.fail THEN "createNoBoundsCube" ELSE "createQuad",
                                     lastLog)
    /\ UNCHANGED <<args, destination_path, stageUrl, boxMesh, loggerDebug, clientV,
                   serverV, liveV, otherV>>

NoBoundsCubeExtent_mut(size) == [Prim("Cube") EXCEPT !.size = size, !.extent = TRUE]

\* The prim createNoBoundsCube authors, lines 608-609: a size and no extent
NoBoundsCube(size) == [Prim("Cube") EXCEPT !.size = size]

\* createNoBoundsCube, lines 600-612, called at line 757 or at line 784
createNoBoundsCube ==
    /\ MainAt("createNoBoundsCube")
    /\ Track(<<Call("Define", TRUE)>>)
    /\ InStage(World("no_bounds_cube"), NoBoundsCube(50))
    /\ CallSave("Created a cube with no extents to fail asset.")
    /\ Return("createNoBoundsCube",
              IF IsEmptyUrl(args.existing) THEN "createQuad" ELSE "shutdownOmniverse",
              "Adding a cube with no extents to generate a validation failure")
    /\ UNCHANGED <<args, destination_path, stageUrl, boxMesh, loggerDebug, clientV,
                   serverV, liveV, otherV>>

\* createQuad, lines 193-237
createQuad ==
    /\ MainAt("createQuad")
    /\ \E defOk \in BOOLEAN, collOk \in BOOLEAN :
          LET quad == [Prim("Mesh") EXCEPT !.extent = TRUE]
              phys == enablePhysics(quad, FALSE, collOk)
          IN  IF ~defOk
              THEN /\ Track(<<Call("Define", FALSE)>>)
                   /\ Exit(1, "[ERROR] Failure to create cube")
                   /\ UNCHANGED <<g_stage, saveV>>
              ELSE /\ Track(<<Call("Define", TRUE), Call("CollisionAPI.Apply", collOk)>>)
                   /\ IF ~phys.ok
                      THEN /\ Exit(1, "Failed to apply UsdPhysics.CollisionAPI")
                           /\ InStage(World("quad"), phys.prim)
                           /\ UNCHANGED saveV
                      ELSE /\ InStage(World("quad"), [phys.prim EXCEPT !.kind = "component"])
                           /\ CallSave("Created a Quad.")
                           /\ Return("createQuad", "createDistantLight", lastLog)
    /\ UNCHANGED <<args, destination_path, stageUrl, boxMesh, loggerDebug, clientV,
                   serverV, liveV, otherV>>

\* createDistantLight, lines 537-567
createDistantLight ==
    /\ MainAt("createDistantLight")
    /\ Track(<<Call("Define", TRUE)>>)
    /\ InStage(World("DistantLight"), [Prim("DistantLight") EXCEPT !.kind = "component"])
    /\ CallSave("Created a DistantLight.")
    /\ Return("createDistantLight", "createDomeLight", lastLog)
    /\ UNCHANGED <<args, destination_path, stageUrl, boxMesh, loggerDebug, clientV,
                   serverV, liveV, otherV>>

\* createDomeLight, lines 571-598
createDomeLight ==
    /\ MainAt("createDomeLight")
    /\ Track(<<Call("Define", TRUE)>>)
    /\ InStage(World("DomeLight"), [Prim("DomeLight") EXCEPT !.kind = "component"])
    /\ CallSave("Created a DomeLight.")
    /\ Return("createDomeLight", "uploadReferences", lastLog)
    /\ UNCHANGED <<args, destination_path, stageUrl, boxMesh, loggerDebug, clientV,
                   serverV, liveV, otherV>>

\* uploadReferences, lines 343-352: no result is looked at
uploadReferences ==
    /\ MainAt("uploadReferences")
    /\ \E delM \in BOOLEAN, copyM \in BOOLEAN, delP \in BOOLEAN, copyP \in BOOLEAN :
          LET m == Cat(destination_path, "/Materials").path
              q == Cat(destination_path, "/Props").path
              f1 == IF delM THEN files \ {m} ELSE files
              f2 == IF copyM THEN f1 \cup {m} ELSE f1
              f3 == IF delP THEN f2 \ {q} ELSE f2
              f4 == IF copyP THEN f3 \cup {q} ELSE f3
          IN  /\ Track(<<Call("delete", delM), Call("copy", copyM),
                         Call("delete", delP), Call("copy", copyP)>>)
              /\ files' = f4
    /\ Return("uploadReferences", "createMaterial", lastLog)
    /\ UNCHANGED <<args, g_stage, destination_path, stageUrl, boxMesh, loggerDebug,
                   clientV, stageFile, saveV, liveV, otherV>>

\* createMaterial, lines 354-428
createMaterial ==
    /\ MainAt("createMaterial")
    /\ Track(<<Call("Define", TRUE)>>)
    /\ LET looks == Put(g_stage.prims, World("Looks"), Prim("Scope"))
           mat == Put(looks, World("Looks/Fieldstone"), Prim("Material"))
           mesh == [mat[boxMesh] EXCEPT !.apis = @ \cup {"MaterialBindingAPI"},
                                        !.material = World("Looks/Fieldstone")]
       IN  g_stage' = [g_stage EXCEPT !.prims = Put(mat, boxMesh, mesh)]
    /\ CallSave("Added material to box.")
    /\ Return("createMaterial", "createReferenceAndPayload", lastLog)
    /\ UNCHANGED <<args, destination_path, stageUrl, boxMesh, loggerDebug, clientV,
                   serverV, liveV, otherV>>

\* createReferenceAndPayload, lines 479-534
createReferenceAndPayload ==
    /\ MainAt("createReferenceAndPayload")
    /\ \E collRef \in BOOLEAN, collPay \in BOOLEAN :
          LET ref == enablePhysics(Prim("Xform"), TRUE, collRef)
              pay == enablePhysics(Prim("Xform"), TRUE, collPay)
              withRef == Put(g_stage.prims, World("Coaster_Hexagon_Reference"), ref.prim)
              withPay == Put(withRef, World("Coaster_Hexagon_Payload"), pay.prim)
          IN  IF ~ref.ok
              THEN /\ Track(<<Call("Define", TRUE), Call("CollisionAPI.Apply", FALSE)>>)
                   /\ Exit(1, "Failed to apply UsdPhysics.CollisionAPI")
                   /\ g_stage' = [g_stage EXCEPT !.prims = withRef]
                   /\ UNCHANGED saveV
              ELSE IF ~pay.ok
              THEN /\ Track(<<Call("Define", TRUE), Call("CollisionAPI.Apply", TRUE),
                              Call("Define", TRUE), Call("CollisionAPI.Apply", FALSE)>>)
                   /\ Exit(1, "Failed to apply UsdPhysics.CollisionAPI")
                   /\ g_stage' = [g_stage EXCEPT !.prims = withPay]
                   /\ UNCHANGED saveV
              ELSE /\ Track(<<Call("Define", TRUE), Call("CollisionAPI.Apply", TRUE),
                              Call("Define", TRUE), Call("CollisionAPI.Apply", TRUE)>>)
                   /\ g_stage' = [g_stage EXCEPT !.prims = withPay]
                   /\ CallSave("Added Reference, Payload, and modified OmniPBR")
                   /\ Return("createReferenceAndPayload", "createEmptyFolder", lastLog)
    /\ UNCHANGED <<args, destination_path, stageUrl, boxMesh, loggerDebug, clientV,
                   serverV, liveV, otherV>>

\* createEmptyFolder, lines 615-619: the result is logged, nothing else
createEmptyFolder ==
    /\ MainAt("createEmptyFolder")
    /\ \E ok \in BOOLEAN :
          /\ Track(<<Call("create_folder", ok)>>)
          /\ files' = IF ok THEN files \cup {Cat(destination_path, "/EmptyFolder").path}
                            ELSE files
    /\ Return("createEmptyFolder", "checkMesh", "Finished (this may be an error if the folder already exists)")
    /\ UNCHANGED <<args, g_stage, destination_path, stageUrl, boxMesh, loggerDebug,
                   clientV, stageFile, saveV, liveV, otherV>>

-----------------------------------------------------------------------------
(* helloWorld.py: the existing-stage branch, lines 777-786, and lines 788-794 *)

\* findGeomMesh, lines 326-341, with the assignment of line 778
findGeomMesh ==
    /\ MainAt("findGeomMesh")
    /\ stageUrl' = args.existing
    /\ \E openOk \in (IF args.existing.path \in files THEN BOOLEAN ELSE {FALSE}) :
          /\ Track(<<Call("Open", openOk)>>)
          /\ IF ~openOk
             THEN /\ Exit(1, "[ERROR] Unable to open stage")
                  /\ UNCHANGED <<g_stage, boxMesh>>
             ELSE /\ g_stage' = [url |-> args.existing, prims |-> stageFile]
                  /\ IF Meshes(stageFile) = {}
                     \* line 340 passes two arguments to sys.exit: a TypeError
                     THEN /\ Exit(1, "TypeError: exit expected at most 1 argument, got 2")
                          /\ UNCHANGED boxMesh
                     ELSE /\ \E m \in Meshes(stageFile) : boxMesh' = m
                          /\ Return("findGeomMesh",
                                    IF args.fail THEN "createNoBoundsCube" ELSE "checkMesh",
                                    "Stage url")
    /\ UNCHANGED <<args, destination_path, loggerDebug, clientV, serverV, saveV, liveV,
                   otherV>>

\* __main__, lines 788-794
checkMesh ==
    /\ MainAt("checkMesh")
    /\ Track(<<>>)
    /\ IF boxMesh = "None"
       THEN Exit(1, "[ERROR] Unable to create or find mesh")
       ELSE Return("checkMesh",
                   IF LiveEdit(args) THEN "run_live_edit" ELSE "shutdownOmniverse",
                   IF loggerDebug THEN "Mesh created/found successfully" ELSE lastLog)
    /\ UNCHANGED <<args, g_stage, destination_path, stageUrl, boxMesh, loggerDebug,
                   clientV, serverV, saveV, liveV, otherV>>

-----------------------------------------------------------------------------
(* helloWorld.py: save_stage, lines 266-278, one action per statement *)

\* line 270
SaveSetMessage ==
    /\ Running /\ savePc = "set_checkpoint_message"
    /\ Track(<<Call("set_checkpoint_message", TRUE)>>)
    /\ checkpointMessage' = saveComment
    /\ savePc' = "Save"
    /\ UNCHANGED <<args, pc, exitCode, lastLog, done, g_stage, destination_path, stageUrl,
                   boxMesh, loggerDebug, clientV, serverV, lastCheckpoint, saveComment,
                   liveV, otherV>>

\* lines 273-274
SaveLayer ==
    /\ Running /\ savePc = "Save"
    /\ Track(<<Call("Save", TRUE)>>)
    /\ files' = files \cup {g_stage.url.path}
    /\ stageFile' = g_stage.prims
    /\ lastCheckpoint' = checkpointMessage
    /\ savePc' = "clear_checkpoint_message"
    /\ UNCHANGED <<args, pc, exitCode, lastLog, done, g_stage, destination_path, stageUrl,
                   boxMesh, loggerDebug, clientV, checkpointMessage, saveComment, liveV,
                   otherV>>

SaveClearMessageKeeps_mut ==
    /\ Running /\ savePc = "clear_checkpoint_message"
    /\ Track(<<Call("set_checkpoint_message", TRUE)>>)
    /\ checkpointMessage' = checkpointMessage
    /\ savePc' = "live_process"
    /\ UNCHANGED <<args, pc, exitCode, lastLog, done, g_stage, destination_path, stageUrl,
                   boxMesh, loggerDebug, clientV, serverV, lastCheckpoint, saveComment,
                   liveV, otherV>>

\* line 277
SaveClearMessage ==
    /\ Running /\ savePc = "clear_checkpoint_message"
    /\ Track(<<Call("set_checkpoint_message", TRUE)>>)
    /\ checkpointMessage' = ""
    /\ savePc' = "live_process"
    /\ UNCHANGED <<args, pc, exitCode, lastLog, done, g_stage, destination_path, stageUrl,
                   boxMesh, loggerDebug, clientV, serverV, lastCheckpoint, saveComment,
                   liveV, otherV>>

\* line 278
SaveLiveProcess ==
    /\ Running /\ savePc = "live_process"
    /\ Track(<<Call("live_process", TRUE)>>)
    /\ savePc' = "none"
    /\ UNCHANGED <<args, pc, exitCode, lastLog, done, g_stage, destination_path, stageUrl,
                   boxMesh, loggerDebug, clientV, serverV, checkpointMessage,
                   lastCheckpoint, saveComment, liveV, otherV>>

-----------------------------------------------------------------------------
(* helloWorld.py: run_live_edit, lines 622-693 *)

\* What getChar can return: the four commands, ESC, and another character
Keys == {"t", "m", "l", "q", "ESC", "x"}

\* The branch the if/elif chain of lines 648-693 takes
Command(option) ==
    IF option = "t" THEN "transform"
    ELSE IF option = "m" THEN "message"
    ELSE IF option = "l" THEN "leave"
    ELSE IF option = "q" \/ option = "ESC" THEN "quit"
    ELSE "help"

HelpText == "Enter 't' to transform, 'm' to send a channel message, 'l' to leave the channel, or 'q' to quit."

\* lines 622-642: up to the first getChar
run_live_edit ==
    /\ MainAt("run_live_edit")
    /\ Track(<<Call("live_process", TRUE), Call("join_channel_with_callback", TRUE)>>)
    /\ angle' = 0
    /\ join_request' = "request"
    /\ pc' = "liveLoop"
    /\ lastLog' = "Begin Live Edit"
    /\ UNCHANGED <<args, exitCode, done, g_stage, destination_path, stageUrl, boxMesh,
                   loggerDebug, clientV, serverV, saveV, keys, sent, pendingSends,
                   stopCalls, otherV>>

\* What input() can return for the channel message: text that
\* message.encode('ascii') accepts, and text for which it raises
Messages == {"hello", "héllo"}

IsAscii(message) == message = "hello"

LeaveChannelKeepsHandle_mut(request, stops) ==
    IF request # "None"
    THEN [join_request |-> request, stopCalls |-> stops + 1]
    ELSE [join_request |-> request, stopCalls |-> stops]

\* lines 685-687: the join handle and the number of stop() calls after an 'l'
LeaveChannel(request, stops) ==
    IF request # "None"
    THEN [join_request |-> "None", stopCalls |-> stops + 1]
    ELSE [join_request |-> request, stopCalls |-> stops]

\* lines 644-693: one pass of the loop, for the character `option`; `message`
\* is the line typed when the pass asks for one
LiveKey(option, message) ==
    /\ MainAt("liveLoop")
    /\ Len(keys) < MaxKeys
    /\ keys' = Append(keys, option)
    /\ LET c == Command(option) IN
       /\ Track(IF c = "message" /\ join_request # "None" /\ IsAscii(message)
                THEN <<Call("live_process", TRUE), Call("send_message_with_callback", TRUE)>>
                ELSE IF c = "leave" /\ join_request # "None"
                THEN <<Call("live_process", TRUE), Call("stop", TRUE)>>
                ELSE <<Call("live_process", TRUE)>>)
       /\ IF c = "transform"
          THEN /\ angle' = (angle + 15) % 360
               /\ g_stage' = [g_stage EXCEPT !.prims[boxMesh].rotY = angle']
               /\ lastLog' = "Setting pos"
               /\ CallSave("")
               /\ UNCHANGED <<pc, exitCode, done, join_request, sent, pendingSends,
                              stopCalls>>
          ELSE IF c = "message"
          THEN /\ IF join_request = "None"
                  THEN /\ lastLog' = "The message channel is disconnected."
                       /\ UNCHANGED <<pc, exitCode, done, sent, pendingSends>>
                  ELSE IF IsAscii(message)
                  THEN /\ lastLog' = "Enter a channel message: "
                       /\ sent' = sent + 1
                       /\ pendingSends' = pendingSends + 1
                       /\ UNCHANGED <<pc, exitCode, done>>
                  \* line 679: message.encode('ascii') raises UnicodeEncodeError
                  ELSE /\ Exit(1, "UnicodeEncodeError")
                       /\ UNCHANGED <<sent, pendingSends>>
               /\ UNCHANGED <<angle, g_stage, join_request, stopCalls, saveV>>
          ELSE IF c = "leave"
          THEN /\ lastLog' = "Leaving message channel"
               /\ stopCalls' = LeaveChannel(join_request, stopCalls).stopCalls
               /\ join_request' = LeaveChannel(join_request, stopCalls).join_request
               /\ UNCHANGED <<pc, exitCode, done, angle, g_stage, sent, pendingSends, saveV>>
          ELSE IF c = "quit"
          THEN /\ lastLog' = "Live edit complete"
               /\ pc' = "shutdownOmniverse"
               /\ done' = Append(done, "run_live_edit")
               /\ UNCHANGED <<exitCode, angle, g_stage, join_request, sent, pendingSends,
                              stopCalls, saveV>>
          ELSE /\ lastLog' = HelpText
               /\ UNCHANGED <<pc, exitCode, done, angle, g_stage, join_request, sent,
                              pendingSends, stopCalls, saveV>>
    /\ UNCHANGED <<args, destination_path, stageUrl, boxMesh, loggerDebug, clientV,
                   serverV, otherV>>

getChar == \E option \in Keys, message \in Messages : LiveKey(option, message)

-----------------------------------------------------------------------------
(* helloWorld.py: the callbacks handed to omni.client *)

\* logCallback, lines 55-59
logCallback ==
    /\ Running /\ clientState = "initialized"
    /\ IF args.verbose
       THEN /\ loggerDebug' = TRUE
            /\ lastLog' = "debug message"
       ELSE UNCHANGED <<loggerDebug, lastLog>>
    /\ UNCHANGED <<args, pc, exitCode, done, g_stage, destination_path, stageUrl, boxMesh,
                   clientV, serverV, saveV, liveV, failV, otherV>>

\* connectionStatusCallback, lines 62-64
connectionStatusCallback(connectionStatus) ==
    /\ Running /\ clientState = "initialized" /\ callbackRegistered
    /\ IF connectionStatus = "CONNECT_ERROR"
       THEN /\ Exit(1, "[ERROR] Failed connection, exiting.")
            /\ Track(<<Call("CONNECT_ERROR", FALSE)>>)
       ELSE UNCHANGED <<pc, exitCode, lastLog, done, failV>>
    /\ UNCHANGED <<args, g_stage, destination_path, stageUrl, boxMesh, loggerDebug,
                   clientV, serverV, saveV, liveV, otherV>>

connectionStatus ==
    \E status \in {"CONNECTING", "CONNECTED", "CONNECT_ERROR"} :
        connectionStatusCallback(status)

ChannelCallbackLeaves_mut(channel_event, fatal) ==
    /\ Running /\ join_request = "request"
    /\ lastLog' = "Channel event"
    /\ join_request' = IF channel_event = "LEFT" THEN "None" ELSE join_request
    /\ UNCHANGED <<args, pc, exitCode, done, g_stage, destination_path, stageUrl, boxMesh,
                   loggerDebug, clientV, serverV, saveV, angle, keys, sent, pendingSends,
                   stopCalls, failV, otherV>>

\* message_channel_callback, lines 630-635: the channel delivers events while
\* joined. For a MESSAGE whose content is not ASCII, line 634 raises inside the
\* callback after the log of line 631: whether the client library lets that
\* end the process is the library's choice (`fatal`).
message_channel_callback(channel_event, fatal) ==
    /\ Running /\ join_request = "request"
    /\ IF channel_event = "MESSAGE"
       THEN /\ lastLog' = "Channel message received"
            /\ UNCHANGED <<pc, exitCode, done>>
       ELSE IF channel_event = "MESSAGE not ASCII" /\ fatal
       THEN Exit(1, "UnicodeDecodeError")
       ELSE /\ lastLog' = "Channel event"
            /\ UNCHANGED <<pc, exitCode, done>>
    /\ UNCHANGED <<args, g_stage, destination_path, stageUrl, boxMesh, loggerDebug,
                   clientV, serverV, saveV, liveV, failV, otherV>>

channelEvent ==
    \E channel_event \in {"JOIN", "LEFT", "MESSAGE", "MESSAGE not ASCII"}, fatal \in BOOLEAN :
        message_channel_callback(channel_event, fatal)

\* on_send_message_cb, lines 638-639
on_send_message_cb ==
    /\ Running /\ pendingSends > 0
    /\ pendingSends' = pendingSends - 1
    /\ UNCHANGED <<args, pc, exitCode, lastLog, done, g_stage, destination_path, stageUrl,
                   boxMesh, loggerDebug, clientV, serverV, saveV, angle, join_request, keys,
                   sent, stopCalls, failV, otherV>>

-----------------------------------------------------------------------------
(* helloWorld.py: the specification *)

\* The stage file a run with -e can find: one that an earlier run of the
\* pipeline wrote (with its box mesh), or one that holds no mesh
StageWithMesh ==
    Put(NewStagePrims, World("box_0"), [Prim("Mesh") EXCEPT !.extent = TRUE])
StageWithoutMesh ==
    Put(NewStagePrims, World("cube"), [Prim("Cube") EXCEPT !.size = 100, !.extent = TRUE])

ValidatorIdle ==
    /\ vStage = << >>
    /\ failedChecks = << >>
    /\ vLast = << >>

HarnessIdle ==
    /\ tTest = "none"
    /\ tPc = "none"
    /\ tRan = << >>
    /\ tCodes = << >>
    /\ tOutput = << >>
    /\ tLine = 0
    /\ tResult = "none"

HelloInit ==
    /\ args \in [live : BOOLEAN, path : {NoUrl, BaseUrl}, verbose : BOOLEAN,
                 existing : {NoneUrl, NoUrl, ExistingStageUrl, LocalStage}, fail : BOOLEAN]
    \* -e "" is run without -v and -f
    /\ args.existing = NoUrl => (~args.verbose /\ ~args.fail)
    /\ pc = "startOmniverse"
    /\ exitCode = << >>
    /\ lastLog = ""
    /\ done = << >>
    /\ g_connection_status_subscription = "None"
    /\ g_stage = NoStage
    /\ destination_path = args.path
    /\ stageUrl = NoUrl
    /\ boxMesh = "None"
    /\ loggerDebug = FALSE
    /\ clientState = "off"
    /\ callbackRegistered = FALSE
    /\ checkpointMessage = ""
    /\ lastCheckpoint = ""
    /\ \E onServer \in (IF args.existing = ExistingStageUrl
                         THEN {EmptyPrims, StageWithMesh, StageWithoutMesh}
                         ELSE {EmptyPrims}) :
          /\ stageFile = onServer
          /\ files = IF onServer = EmptyPrims THEN {} ELSE {ExistingStageUrl.path}
    /\ savePc = "none"
    /\ saveComment = ""
    /\ angle = 0
    /\ join_request = "None"
    /\ keys = << >>
    /\ sent = 0
    /\ pendingSends = 0
    /\ stopCalls = 0
    /\ failed = FALSE
    /\ stepCalls = << >>

Init == HelloInit /\ ValidatorIdle /\ HarnessIdle

Next ==
    \/ startOmniverse
    \/ startOmniverseReturn
    \/ resolveDestination
    \/ createOmniverseModel
    \/ logConnectedUsername
    \/ createPhysicsScene
    \/ createBox
    \/ createDynamicCube
    \/ createNoBoundsCube
    \/ createQuad
    \/ createDistantLight
    \/ createDomeLight
    \/ uploadReferences
    \/ createMaterial
    \/ createReferenceAndPayload
    \/ createEmptyFolder
    \/ findGeomMesh
    \/ checkMesh
    \/ run_live_edit
    \/ getChar
    \/ shutdownOmniverse
    \/ SaveSetMessage
    \/ SaveLayer
    \/ SaveClearMessage
    \/ SaveLiveProcess
    \/ logCallback
    \/ connectionStatus
    \/ channelEvent
    \/ on_send_message_cb

Spec == Init /\ [][Next]_vars

-----------------------------------------------------------------------------
(* The validator rules: usdGeomSubset.py and usdMaterialBindingApi.py *)

\* Property names are character sequences, so that str.startswith is computed
MaterialBindingName == <<"m","a","t","e","r","i","a","l",":","b","i","n","d","i","n","g">>
FamilyNameName == <<"f","a","m","i","l","y","N","a","m","e">>

PropertyNames ==
    { MaterialBindingName,                                 \* material:binding
      MaterialBindingName \o <<":","p">>,                  \* material:binding:p
      <<"m","y",":">> \o MaterialBindingName,              \* my:material:binding
      SubSeq(MaterialBindingName, 1, 15),                  \* material:bindin
      FamilyNameName,                                      \* familyName
      FamilyNameName \o <<"s">> }                          \* familyNames

\* str.startswith
startswith(name, prefix) ==
    /\ Len(prefix) <= Len(name)
    /\ SubSeq(name, 1, Len(prefix)) = prefix

\* UsdShade.Tokens.materialBind
materialBind == "materialBind"

\* subset.GetFamilyNameAttr().Get()
GetFamilyName(prim) == prim.familyName

HasAPI(prim, api) == api \in prim.apis

SubsetCheckAnyPrim_mut(prim) ==
    LET hasMaterialBindingRel ==
            \E prop \in prim.props : startswith(prop, MaterialBindingName)
        hasFamilyName == \E prop \in prim.props : startswith(prop, FamilyNameName)
    IN  hasMaterialBindingRel /\ (~hasFamilyName \/ GetFamilyName(prim) # materialBind)

\* UsdGeomSubsetChecker.CheckPrim, lines 28-42: whether _AddFailedCheck is called
SubsetCheckFails(prim) ==
    IF ~prim.isSubset
    THEN FALSE
    ELSE LET hasMaterialBindingRel ==
                 \E prop \in prim.props : startswith(prop, MaterialBindingName)
             hasFamilyName == \E prop \in prim.props : startswith(prop, FamilyNameName)
         IN  hasMaterialBindingRel
                 /\ (~hasFamilyName \/ GetFamilyName(prim) # materialBind)

BindingCheckNoApiTest_mut(prim) ==
    \E prop \in prim.props : startswith(prop, MaterialBindingName)

\* UsdMaterialBindingApi.CheckPrim, lines 27-33: whether _AddFailedCheck is called
BindingCheckFails(prim) ==
    IF HasAPI(prim, "MaterialBindingAPI")
    THEN FALSE
    ELSE LET hasMaterialBindingRel ==
                 \E prop \in prim.props : startswith(prop, MaterialBindingName)
         IN  hasMaterialBindingRel /\ ~HasAPI(prim, "MaterialBindingAPI")

Rules == {"UsdGeomSubsetChecker", "UsdMaterialBindingApi"}

RuleFails(rule, prim) ==
    IF rule = "UsdGeomSubsetChecker" THEN SubsetCheckFails(prim) ELSE BindingCheckFails(prim)

apply_family_name_fix_all_mut(stage, prim) ==
    [q \in DOMAIN stage |->
        IF stage[q].isSubset
        THEN [stage[q] EXCEPT !.props = @ \cup {FamilyNameName}, !.familyName = materialBind]
        ELSE stage[q]]

\* UsdGeomSubsetChecker.apply_family_name_fix, lines 24-26: the stage afterwards
apply_family_name_fix(stage, prim) ==
    [stage EXCEPT ![prim] =
        [@ EXCEPT !.props = @ \cup {FamilyNameName}, !.familyName = materialBind]]

\* UsdMaterialBindingApi.apply_material_binding_api_fix, lines 24-25
apply_material_binding_api_fix(stage, prim) ==
    [stage EXCEPT ![prim] = [@ EXCEPT !.apis = @ \cup {"MaterialBindingAPI"}]]

\* CheckPrim of `rule` on the prim named `prim`
CheckPrim(rule, prim) ==
    /\ vLast # << >> => vLast.checks < MaxChecks
    /\ LET fails == RuleFails(rule, vStage[prim])
           n == IF vLast = << >> THEN 0 ELSE vLast.checks
       IN  /\ failedChecks' = IF fails THEN Append(failedChecks, [rule |-> rule, at |-> prim])
                                       ELSE failedChecks
           /\ vLast' = [op |-> "CheckPrim", rule |-> rule, prim |-> prim, before |-> vStage,
                        added |-> Len(failedChecks') - Len(failedChecks), checks |-> n + 1]
    /\ UNCHANGED <<vStage, helloVars, harnessVars>>

\* The host applies the suggestion attached to the failed check number i:
\* it calls the rule's fix function with the stage and the prim of the check
ApplySuggestion(i) ==
    /\ i \in 1..Len(failedChecks)
    /\ LET check == failedChecks[i] IN
       /\ vStage' = IF check.rule = "UsdGeomSubsetChecker"
                    THEN apply_family_name_fix(vStage, check.at)
                    ELSE apply_material_binding_api_fix(vStage, check.at)
       /\ vLast' = [op |-> "fix", rule |-> check.rule, prim |-> check.at, before |-> vStage,
                    added |-> 0, checks |-> vLast.checks]
    /\ UNCHANGED <<failedChecks, helloVars, harnessVars>>

CheckAnyPrim == \E rule \in Rules, prim \in DOMAIN vStage : CheckPrim(rule, prim)

ApplyAnySuggestion == \E i \in 1..MaxChecks : ApplySuggestion(i)

\* The prims a rule can be handed
ValidatorPrims ==
    { [isSubset |-> sub, props |-> ps, familyName |-> fam, apis |-> as] :
        sub \in BOOLEAN,
        ps \in {x \in SUBSET PropertyNames : Cardinality(x) <= MaxProps},
        fam \in {"", materialBind, "partition"},
        as \in {{}, {"MaterialBindingAPI"}} }

\* A familyName value is authored only on a prim that has the property
WellFormedPrim(prim) == prim.familyName # "" => FamilyNameName \in prim.props

\* A second prim of the stage, to see what a rule does to the prims it is not given
OtherPrims ==
    { [isSubset |-> TRUE, props |-> {MaterialBindingName}, familyName |-> "", apis |-> {}],
      [isSubset |-> FALSE, props |-> {}, familyName |-> "", apis |-> {}] }

HelloIdle ==
    /\ args = [live |-> FALSE, path |-> NoUrl, verbose |-> FALSE, existing |-> NoneUrl,
               fail |-> FALSE]
    /\ pc = "exited"
    /\ exitCode = << >>
    /\ lastLog = ""
    /\ done = << >>
    /\ g_connection_status_subscription = "None"
    /\ g_stage = NoStage
    /\ destination_path = NoUrl
    /\ stageUrl = NoUrl
    /\ boxMesh = "None"
    /\ loggerDebug = FALSE
    /\ clientState = "off"
    /\ callbackRegistered = FALSE
    /\ checkpointMessage = ""
    /\ lastCheckpoint = ""
    /\ stageFile = EmptyPrims
    /\ files = {}
    /\ savePc = "none"
    /\ saveComment = ""
    /\ angle = 0
    /\ join_request = "None"
    /\ keys = << >>
    /\ sent = 0
    /\ pendingSends = 0
    /\ stopCalls = 0
    /\ failed = FALSE
    /\ stepCalls = << >>

ValidatorInit ==
    /\ \E target \in {p \in ValidatorPrims : WellFormedPrim(p)}, other \in OtherPrims :
          vStage = [q \in {"target", "other"} |-> IF q = "target" THEN target ELSE other]
    /\ failedChecks = << >>
    /\ vLast = << >>

InitValidator == HelloIdle /\ ValidatorInit /\ HarnessIdle

NextValidator ==
    \/ CheckAnyPrim
    \/ ApplyAnySuggestion

SpecValidator == InitValidator /\ [][NextValidator]_vars

-----------------------------------------------------------------------------
(* tests/test_all.py: test_helloworld_cpp and test_helloworld_py *)

\* A line of captured output is the sequence of its words; `w in line` of the
\* tests asks for a word of the line
Contains(line, w) == \E i \in 1..Len(line) : line[i] = w

OutputLines ==
    { <<"Error", "OmniPBR.mdl">>,
      <<"Error", "ExtentsChecker">>,
      <<"Warning", "OmniPBR.mdl">>,
      <<"error", "extent">>,
      <<"ok">> }

LineAssertFailsNoMdl_mut(line) == Contains(line, "Error")

\* lines 64-69 and 81-86: whether assert(0) is reached for the line
LineAssertFails(line) == Contains(line, "Error") /\ ~Contains(line, "OmniPBR.mdl")

\* The sample's launcher script and the stage it writes, lines 56-58 and 73-75
SampleScript(test) == IF test = "cpp" THEN "run_hello_world" ELSE "run_py_hello_world"
TestStageUrl(test) ==
    Cat(BaseUrl, "/" \o (IF test = "cpp" THEN "helloworld.usd" ELSE "helloworld_py.usd"))

\* run_shell_script followed by assert(return_code == 0)
RunAndAssert(here, script, argv, code, next) ==
    /\ tPc = here
    /\ tRan' = Append(tRan, [script |-> script, argv |-> argv])
    /\ IF code = 0
       THEN /\ tPc' = next
            /\ UNCHANGED tResult
       ELSE /\ tPc' = "done"
            /\ tResult' = "failed"
    /\ UNCHANGED <<tTest, tCodes, tOutput, helloVars, validatorVars>>

\* lines 58-59 and 75-76
TestRunSample ==
    /\ RunAndAssert("sample", SampleScript(tTest), <<"-p", BaseUrl.path>>, tCodes[1], "stat")
    /\ UNCHANGED tLine

\* lines 60-61 and 77-78
TestStat ==
    /\ RunAndAssert("stat", "omnicli", <<"stat", TestStageUrl(tTest).path>>, tCodes[2],
                    "validator")
    /\ UNCHANGED tLine

\* lines 62-63 and 79-80
TestValidator ==
    /\ RunAndAssert("validator", "omni_asset_validator", <<TestStageUrl(tTest).path>>,
                    tCodes[3], "lines")
    /\ tLine' = 1

\* lines 64-69 and 81-86: one pass of the loop over output.splitlines()
TestLine ==
    /\ tPc = "lines"
    /\ IF tLine > Len(tOutput)
       THEN /\ tPc' = "done"
            /\ tResult' = "passed"
            /\ UNCHANGED tLine
       ELSE IF LineAssertFails(tOutput[tLine])
       THEN /\ tPc' = "done"
            /\ tResult' = "failed"
            /\ UNCHANGED tLine
       ELSE /\ tLine' = tLine + 1
            /\ UNCHANGED <<tPc, tResult>>
    /\ UNCHANGED <<tTest, tRan, tCodes, tOutput, helloVars, validatorVars>>

RECURSIVE SeqsUpTo(_, _)
SeqsUpTo(S, n) ==
    IF n = 0 THEN {<< >>}
    ELSE LET shorter == SeqsUpTo(S, n - 1)
         IN  shorter \cup {Append(q, x) : q \in shorter, x \in S}

HarnessInit ==
    /\ tTest \in {"cpp", "py"}
    /\ tPc = "sample"
    /\ tRan = << >>
    /\ tCodes \in [1..3 -> {0, 1}]
    /\ tOutput \in SeqsUpTo(OutputLines, MaxLines)
    /\ tLine = 0
    /\ tResult = "running"

InitHarness == HelloIdle /\ ValidatorIdle /\ HarnessInit

NextHarness ==
    \/ TestRunSample
    \/ TestStat
    \/ TestValidator
    \/ TestLine

SpecHarness == InitHarness /\ [][NextHarness]_vars

-----------------------------------------------------------------------------
(* Claims about helloWorld.py, checked under Spec *)

InDone(name) == \E i \in 1..Len(done) : done[i] = name

\* The steps of the script itself: __main__, the functions it calls, save_stage
ScriptStep ==
    \/ startOmniverse \/ startOmniverseReturn \/ resolveDestination
    \/ createOmniverseModel \/ logConnectedUsername \/ createPhysicsScene \/ createBox
    \/ createDynamicCube \/ createNoBoundsCube \/ createQuad \/ createDistantLight
    \/ createDomeLight \/ uploadReferences \/ createMaterial \/ createReferenceAndPayload
    \/ createEmptyFolder \/ findGeomMesh \/ checkMesh \/ run_live_edit \/ getChar
    \/ shutdownOmniverse
    \/ SaveSetMessage \/ SaveLayer \/ SaveClearMessage \/ SaveLiveProcess

\* C3: run with -p P, without -l and -e: no character is ever read and the
\* live-edit loop is never entered; while no SDK call has failed the script can
\* always take its next step; and a run in which every SDK call succeeded ends
\* with status 0 after the whole creation pipeline and shutdownOmniverse, with
\* the stage saved at P + "/helloworld_py.usd".
C3_RunWithPath ==
    (~IsEmptyUrl(args.path) /\ ~args.live /\ IsEmptyUrl(args.existing)) =>
        /\ keys = << >>
        /\ pc \notin {"run_live_edit", "liveLoop"}
        /\ (pc # "exited" /\ ~failed) => ENABLED ScriptStep
        /\ (pc = "exited" /\ ~failed) =>
              /\ exitCode = <<0>>
              /\ done = <<"startOmniverse", "resolveDestination", "createOmniverseModel",
                          "logConnectedUsername", "createPhysicsScene", "createBox",
                          "createDynamicCube">>
                        \o (IF args.fail THEN <<"createNoBoundsCube">> ELSE << >>)
                        \o <<"createQuad", "createDistantLight", "createDomeLight",
                             "uploadReferences", "createMaterial",
                             "createReferenceAndPayload", "createEmptyFolder", "checkMesh",
                             "shutdownOmniverse">>
              /\ clientState = "shutdown"
              /\ savePc = "none"
              /\ stageUrl = [scheme |-> args.path.scheme,
                             path |-> args.path.path \o "/helloworld_py.usd"]
              /\ g_stage.url = stageUrl
              /\ stageUrl.path \in files
              /\ stageFile = g_stage.prims

\* A run with -p and without -l, -e has ended with every SDK call successful
C3_Witness ==
    /\ ~IsEmptyUrl(args.path) /\ ~args.live /\ IsEmptyUrl(args.existing)
    /\ pc = "exited"
    /\ ~failed
    /\ InDone("createEmptyFolder")
    /\ exitCode = <<0>>

\* C4: run with -e S -f: no character is ever read and the live-edit loop is
\* never entered although -e turns live editing on; when S opens and holds a
\* mesh, the run ends with status 0 after shutdownOmniverse, with the cube
\* no_bounds_cube (size set, no extent) under the default prim and saved to S.
C4_ExistingFail ==
    (~IsEmptyUrl(args.existing) /\ args.fail) =>
        /\ keys = << >>
        /\ pc \notin {"run_live_edit", "liveLoop", "checkMesh"}
        /\ (pc = "exited" /\ ~failed /\ Meshes(g_stage.prims) # {}) =>
              /\ args.live \/ ~IsEmptyUrl(args.existing)
              /\ exitCode = <<0>>
              /\ done = <<"startOmniverse", "resolveDestination", "findGeomMesh",
                          "createNoBoundsCube", "shutdownOmniverse">>
              /\ clientState = "shutdown"
              /\ savePc = "none"
              /\ g_stage.url = args.existing
              /\ "/World/no_bounds_cube" \in DOMAIN g_stage.prims
              /\ g_stage.prims["/World/no_bounds_cube"].type = "Cube"
              /\ g_stage.prims["/World/no_bounds_cube"].size = 50
              /\ ~g_stage.prims["/World/no_bounds_cube"].extent
              /\ args.existing.path \in files
              /\ stageFile = g_stage.prims

\* A run with -e S -f on a stage with a mesh has ended
C4_Witness ==
    /\ ~IsEmptyUrl(args.existing) /\ args.fail
    /\ pc = "exited"
    /\ ~failed
    /\ boxMesh = "/World/box_0"
    /\ InDone("createNoBoundsCube")

TerminatingCalls == {"initialize", "CONNECT_ERROR", "Open", "Define", "CollisionAPI.Apply"}
UncheckedCalls == {"delete", "copy", "create_folder"}

C6_LiveLoopDispatch ==
    /\ [](/\ pc = "liveLoop" => \A i \in 1..Len(keys) : keys[i] \notin {"q", "ESC"}
          /\ InDone("run_live_edit") =>
                /\ keys # << >>
                /\ keys[Len(keys)] \in {"q", "ESC"}
                /\ \A i \in 1..(Len(keys) - 1) : keys[i] \notin {"q", "ESC"})
    /\ [][keys' # keys =>
             IF keys'[Len(keys')] \in {"q", "ESC"}
             THEN pc' = "shutdownOmniverse" /\ done' = Append(done, "run_live_edit")
             ELSE pc' = "liveLoop" /\ exitCode' = << >>]_vars
    /\ [][(keys' # keys /\ keys'[Len(keys')] \notin {"t", "m", "l", "q", "ESC"}) =>
             /\ lastLog' = "Enter 't' to transform, 'm' to send a channel message, 'l' to leave the channel, or 'q' to quit."
             /\ UNCHANGED <<angle, join_request, g_stage, stageFile, files, savePc, sent,
                            pendingSends, stopCalls, done, exitCode>>]_vars

\* C7: from the return of startOmniverse until shutdownOmniverse is called, the
\* module global g_connection_status_subscription holds the subscription.
C7_GlobalHoldsSubscription ==
    (InDone("startOmniverse") /\ ~InDone("shutdownOmniverse") /\ pc # "exited") =>
        g_connection_status_subscription = "subscription"

\* C8: a callback (log, connection status, channel message, send-message) leaves
\* g_stage, the angle, the join handle and the rest of the script's own state
\* alone; it can log, switch the logger to DEBUG, or end the process.
C8_CallbacksLeaveScriptState ==
    [][(logCallback \/ connectionStatus \/ channelEvent \/ on_send_message_cb) =>
          /\ UNCHANGED <<g_stage, angle, join_request>>
          /\ UNCHANGED <<args, destination_path, stageUrl, boxMesh, keys, savePc,
                         saveComment, checkpointMessage, stageFile, files, sent, stopCalls,
                         done, g_connection_status_subscription>>
          /\ pc' \in {pc, "exited"}]_vars

\* A channel message has been delivered in the middle of the live edit
C8_Witness ==
    /\ pc = "liveLoop"
    /\ angle = 15
    /\ lastLog = "Channel message received"
    /\ loggerDebug

\* C11: inside save_stage the checkpoint message is the comment when the layer
\* is saved and is "" again before live_process; whenever no save_stage call is
\* in progress the checkpoint message is "", so that a step that deletes,
\* copies or creates something on the server outside save_stage runs with "".
C11_CheckpointMessageReset ==
    /\ [](/\ savePc = "Save" => checkpointMessage = saveComment
          /\ savePc = "clear_checkpoint_message" =>
                /\ checkpointMessage = saveComment
                /\ lastCheckpoint = saveComment
          /\ savePc = "live_process" => checkpointMessage = ""
          /\ savePc = "none" => checkpointMessage = "")
    /\ [][(files' # files \/ stageFile' # stageFile) =>
             (savePc = "Save" \/ checkpointMessage = "")]_vars

\* The save of createReferenceAndPayload has run to its end with its comment,
\* and the folder of createEmptyFolder was created after it
C11_Witness ==
    /\ savePc = "none"
    /\ lastCheckpoint = "Added Reference, Payload, and modified OmniPBR"
    /\ checkpointMessage = ""
    /\ InDone("createEmptyFolder")
    /\ Cat(destination_path, "/EmptyFolder").path \in files

\* run_live_edit has been entered: it joins the channel, and only a key leaves it
EnteredLiveEdit == join_request = "request" \/ keys # << >>

\* The run is the early exit of lines 783-786
EarlyExit == ~IsEmptyUrl(args.existing) /\ args.fail

\* The statement of C12 for a reading `given` of "-e is given"
LiveModeStatement(given) ==
    LET live == args.live \/ given
        enters == live /\ boxMesh # "None" /\ ~EarlyExit
    IN  /\ InDone("createOmniverseModel") =>
              /\ stageUrl = Cat(destination_path,
                                IF args.live THEN "/helloworld_py.live"
                                             ELSE "/helloworld_py.usd")
              /\ g_stage.url = stageUrl
        /\ EnteredLiveEdit => enters
        /\ (InDone("checkMesh") /\ enters) => (EnteredLiveEdit \/ pc = "run_live_edit")
        /\ (pc = "shutdownOmniverse" \/ InDone("shutdownOmniverse")) =>
              (InDone("run_live_edit") <=> enters)

\* C12: live mode is on exactly when -l or -e is given; a new stage gets the
\* URL path + "/helloworld_py.live" with -l and path + "/helloworld_py.usd"
\* without; the run enters the live-edit loop before shutdown exactly when live
\* mode is on, a mesh was created or found, and it is not the -e -f early exit.
C12_LiveModeWhenGiven == LiveModeStatement(args.existing # NoneUrl)

\* C12, amended: the same with live mode on exactly when -l is given or -e is
\* given with a value that is not the empty string.
C12_LiveModeWhenNonEmpty == LiveModeStatement(~IsEmptyUrl(args.existing))

\* A run with -l and -e "" is in the live-edit loop on the stage it created
C12_Witness ==
    /\ pc = "liveLoop"
    /\ args.live
    /\ args.existing = NoUrl
    /\ stageUrl = Cat(BaseUrl, "/helloworld_py.live")
    /\ Len(keys) = 1

\* An 'l' is among the keys read so far
LeftChannel(ks) == \E i \in 1..Len(ks) : ks[i] = "l"

\* C13: join_request.stop() is called at most once, on the first 'l'; after it
\* the channel is never joined again; an 'm' after an 'l' sends nothing and
\* logs that the message channel is disconnected; a message is sent only by an
\* 'm' while the channel is joined.
C13_LeaveIsPermanent ==
    /\ [](/\ stopCalls = (IF LeftChannel(keys) THEN 1 ELSE 0)
          /\ LeftChannel(keys) => join_request = "None")
    /\ [][stopCalls' # stopCalls =>
             /\ keys' = Append(keys, "l")
             /\ ~LeftChannel(keys)
             /\ join_request = "request" /\ join_request' = "None"]_vars
    /\ [][(join_request' = "request" /\ join_request # "request") =>
             (pc = "run_live_edit" /\ keys = << >>)]_vars
    /\ [][(keys' = Append(keys, "m") /\ LeftChannel(keys)) =>
             /\ lastLog' = "The message channel is disconnected."
             /\ pc' = "liveLoop"
             /\ UNCHANGED <<sent, pendingSends, stopCalls, join_request, angle, g_stage,
                            savePc, exitCode>>]_vars
    /\ [][sent' # sent =>
             /\ sent' = sent + 1
             /\ keys' = Append(keys, "m")
             /\ join_request = "request"
             /\ ~LeftChannel(keys)]_vars

\* Two 'l' and then an 'm': one stop() call, nothing sent, the channel left
C13_Witness ==
    /\ keys = <<"l", "l", "m">>
    /\ stopCalls = 1
    /\ sent = 0
    /\ join_request = "None"
    /\ lastLog = "The message channel is disconnected."

\* The physics schemas applied to a prim
PhysicsApis(prim) ==
    prim.apis \cap {"PhysicsRigidBodyAPI", "PhysicsCollisionAPI", "PhysicsMeshCollisionAPI"}

\* What C14 says of one call enablePhysics(prim, dynamic) on a prim of type t
EnablePhysicsStatement(t, dynamic, collisionOk) ==
    LET r == enablePhysics(Prim(t), dynamic, collisionOk)
        applied == PhysicsApis(r.prim)
    IN  /\ "PhysicsRigidBodyAPI" \in applied <=> dynamic
        /\ r.ok <=> collisionOk
        /\ "PhysicsCollisionAPI" \in applied <=> collisionOk
        /\ "PhysicsMeshCollisionAPI" \in applied <=> (collisionOk /\ t = "Mesh")
        /\ r.prim.approximation =
              (IF collisionOk /\ t = "Mesh"
               THEN (IF dynamic THEN "convexHull" ELSE "none")
               ELSE "")

\* C14: enablePhysics applies RigidBodyAPI exactly when dynamic, CollisionAPI
\* always, MeshCollisionAPI to Mesh prims only, with approximation convexHull
\* when dynamic and none when not; when CollisionAPI.Apply fails the process
\* exits with status 1 and no MeshCollisionAPI has been applied. Stated of the
\* function for every prim type, and of the prims of the stage the pipeline
\* creates after each step that calls it.
C14_EnablePhysics ==
    LET at(name) == g_stage.prims[World(name)]
        new == IsEmptyUrl(args.existing)
        all == {"PhysicsRigidBodyAPI", "PhysicsCollisionAPI", "PhysicsMeshCollisionAPI"}
    IN  /\ \A t \in {"Mesh", "Cube", "Xform"}, dynamic \in BOOLEAN, collisionOk \in BOOLEAN :
              EnablePhysicsStatement(t, dynamic, collisionOk)
        /\ (new /\ InDone("createBox")) =>
              /\ PhysicsApis(at("box_0")) = all
              /\ at("box_0").approximation = "convexHull"
        /\ (new /\ InDone("createDynamicCube")) =>
              /\ PhysicsApis(at("cube")) = {"PhysicsRigidBodyAPI", "PhysicsCollisionAPI"}
              /\ at("cube").approximation = ""
        /\ (new /\ InDone("createQuad")) =>
              /\ PhysicsApis(at("quad")) = {"PhysicsCollisionAPI", "PhysicsMeshCollisionAPI"}
              /\ at("quad").approximation = "none"
        /\ (new /\ InDone("createReferenceAndPayload")) =>
              \A n \in {"Coaster_Hexagon_Reference", "Coaster_Hexagon_Payload"} :
                  PhysicsApis(at(n)) = {"PhysicsRigidBodyAPI", "PhysicsCollisionAPI"}
        /\ \A q \in DOMAIN g_stage.prims :
              "PhysicsMeshCollisionAPI" \in g_stage.prims[q].apis =>
                  /\ g_stage.prims[q].type = "Mesh"
                  /\ "PhysicsCollisionAPI" \in g_stage.prims[q].apis
        /\ (stepCalls # << >>
              /\ stepCalls[Len(stepCalls)] = [name |-> "CollisionAPI.Apply", ok |-> FALSE]) =>
              /\ pc = "exited"
              /\ exitCode = <<1>>
              /\ lastLog = "Failed to apply UsdPhysics.CollisionAPI"

\* CollisionAPI.Apply failed on the quad: the run ended with status 1, the quad
\* has no physics schema, and the box made before it has all three
C14_Witness ==
    /\ pc = "exited"
    /\ exitCode = <<1>>
    /\ lastLog = "Failed to apply UsdPhysics.CollisionAPI"
    /\ World("quad") \in DOMAIN g_stage.prims
    /\ PhysicsApis(g_stage.prims[World("quad")]) = {}
    /\ g_stage.prims[World("box_0")].approximation = "convexHull"
    /\ PhysicsApis(g_stage.prims[World("cube")]) = {"PhysicsRigidBodyAPI", "PhysicsCollisionAPI"}

\* C15: without -e and -p the destination path is
\* "omniverse://localhost/Users/" followed by the connected username; when the
\* server info gives no username the program logs an error and exits with a
\* status that is not 0, before anything was deleted, created or uploaded.
C15_UsernameDestination ==
    (args.existing = NoneUrl /\ IsEmptyUrl(args.path)) =>
        /\ ~InDone("startOmniverse") => destination_path = NoUrl
        /\ InDone("resolveDestination") =>
              destination_path = [scheme |-> "omniverse", path |-> "//localhost/Users/user"]
        /\ (stepCalls = <<[name |-> "get_server_info", ok |-> FALSE]>>
              /\ ~InDone("resolveDestination")) =>
              /\ pc = "exited"
              /\ exitCode # << >> /\ exitCode # <<0>>
              /\ exitCode = <<255>>
              /\ lastLog = "Cannot access directory"
              /\ done = <<"startOmniverse">>
              /\ files = {}
              /\ stageFile = EmptyPrims
              /\ g_stage = NoStage
              /\ stageUrl = NoUrl
        /\ \A i \in 1..Len(done) :
              done[i] \in {"createOmniverseModel", "uploadReferences", "createEmptyFolder"} =>
                 \E j \in 1..(i - 1) : done[j] = "resolveDestination"

\* No username came back: the run has ended in the username check
C15_Witness ==
    /\ args.existing = NoneUrl /\ IsEmptyUrl(args.path)
    /\ pc = "exited"
    /\ exitCode = <<255>>
    /\ lastLog = "Cannot access directory"
    /\ stepCalls = <<[name |-> "get_server_info", ok |-> FALSE]>>

-----------------------------------------------------------------------------
(* Claims about the validator rules, checked under SpecValidator *)

\* prefix is an initial segment of name, character by character
HasPrefix(name, prefix) ==
    /\ Len(name) >= Len(prefix)
    /\ \A i \in 1..Len(prefix) : name[i] = prefix[i]

LastWasCheck(rule) == vLast # << >> /\ vLast.op = "CheckPrim" /\ vLast.rule = rule

\* C1: UsdGeomSubsetChecker.CheckPrim adds a failed check exactly when the prim
\* is a UsdGeom.Subset, has a property whose name starts with "material:binding",
\* and has no property whose name starts with "familyName" or a familyName value
\* other than materialBind; for every other prim it adds none.
C1_SubsetCheckerIff ==
    LastWasCheck("UsdGeomSubsetChecker") =>
        LET prim == vLast.before[vLast.prim]
            binding == \E n \in prim.props : HasPrefix(n, MaterialBindingName)
            family == \E n \in prim.props : HasPrefix(n, FamilyNameName)
            expected == /\ prim.isSubset
                        /\ binding
                        /\ (~family \/ prim.familyName # "materialBind")
        IN  /\ expected =>
                /\ vLast.added = 1
                /\ failedChecks[Len(failedChecks)] =
                       [rule |-> "UsdGeomSubsetChecker", at |-> vLast.prim]
            /\ ~expected => vLast.added = 0

\* A Subset with a binding and a familyName of another value has been flagged
C1_Witness ==
    /\ LastWasCheck("UsdGeomSubsetChecker")
    /\ vLast.added = 1
    /\ vLast.before[vLast.prim].familyName = "partition"
    /\ MaterialBindingName \o <<":","p">> \in vLast.before[vLast.prim].props

\* C2: UsdMaterialBindingApi.CheckPrim adds a failed check exactly when the prim
\* has a property whose name starts with "material:binding" and does not have
\* MaterialBindingAPI applied.
C2_BindingApiIff ==
    LastWasCheck("UsdMaterialBindingApi") =>
        LET prim == vLast.before[vLast.prim]
            binding == \E n \in prim.props : HasPrefix(n, MaterialBindingName)
            expected == binding /\ "MaterialBindingAPI" \notin prim.apis
        IN  /\ expected =>
                /\ vLast.added = 1
                /\ failedChecks[Len(failedChecks)] =
                       [rule |-> "UsdMaterialBindingApi", at |-> vLast.prim]
            /\ ~expected => vLast.added = 0

\* A prim with a purpose binding and without the API has been flagged
C2_Witness ==
    /\ LastWasCheck("UsdMaterialBindingApi")
    /\ vLast.added = 1
    /\ vLast.before[vLast.prim].props = {MaterialBindingName \o <<":","p">>}
    /\ ~vLast.before[vLast.prim].isSubset

\* C10: CheckPrim of either rule leaves the stage as it was and adds at most one
\* failed check; the stage changes only when the host applies a suggestion of a
\* failed check, and then only the prim of that check changes, by the one write
\* of the rule's fix (familyName set to materialBind, or MaterialBindingAPI applied).
C10_SingleCheckSingleWrite ==
    vLast # << >> =>
        /\ vLast.op = "CheckPrim" =>
              /\ vStage = vLast.before
              /\ vLast.added \in {0, 1}
        /\ vStage # vLast.before => vLast.op = "fix"
        /\ vLast.op = "fix" =>
              /\ DOMAIN vStage = DOMAIN vLast.before
              /\ \A q \in DOMAIN vStage : q # vLast.prim => vStage[q] = vLast.before[q]
              /\ \E i \in 1..Len(failedChecks) :
                    failedChecks[i] = [rule |-> vLast.rule, at |-> vLast.prim]
              /\ LET was == vLast.before[vLast.prim]
                     now == vStage[vLast.prim]
                 IN  IF vLast.rule = "UsdGeomSubsetChecker"
                     THEN now = [was EXCEPT !.familyName = "materialBind",
                                            !.props = @ \cup {FamilyNameName}]
                     ELSE now = [was EXCEPT !.apis = @ \cup {"MaterialBindingAPI"}]

\* The family name fix has been applied to the prim of a failed check while the
\* other prim of the stage is a Subset that the rule would flag too
C10_Witness ==
    /\ vLast # << >>
    /\ vLast.op = "fix"
    /\ vLast.rule = "UsdGeomSubsetChecker"
    /\ vLast.prim = "target"
    /\ vStage # vLast.before
    /\ vStage["other"].isSubset

-----------------------------------------------------------------------------
(* Claims about the test harness, checked under SpecHarness *)

Words(line) == {line[i] : i \in 1..Len(line)}

\* C9: the hello-world tests run sample, omnicli stat and omni_asset_validator in
\* that order, stop at the first return code that is not 0, and pass exactly when
\* the three return codes are 0 and every output line with "Error" also has
\* "OmniPBR.mdl".
C9_HarnessPassIff ==
    LET steps == << [script |-> IF tTest = "cpp" THEN "run_hello_world"
                                                  ELSE "run_py_hello_world",
                     argv |-> <<"-p", "//localhost/Projects/samplesTest">>],
                    [script |-> "omnicli",
                     argv |-> <<"stat", IF tTest = "cpp"
                                  THEN "//localhost/Projects/samplesTest/helloworld.usd"
                                  ELSE "//localhost/Projects/samplesTest/helloworld_py.usd">>],
                    [script |-> "omni_asset_validator",
                     argv |-> <<IF tTest = "cpp"
                                THEN "//localhost/Projects/samplesTest/helloworld.usd"
                                ELSE "//localhost/Projects/samplesTest/helloworld_py.usd">>] >>
        allZero == \A i \in 1..3 : tCodes[i] = 0
        linesOk == \A i \in 1..Len(tOutput) :
                      "Error" \in Words(tOutput[i]) => "OmniPBR.mdl" \in Words(tOutput[i])
    IN  /\ Len(tRan) <= 3
        /\ tRan = SubSeq(steps, 1, Len(tRan))
        /\ \A i \in 1..3 : tCodes[i] # 0 => Len(tRan) <= i
        /\ tPc = "done" =>
              /\ tResult \in {"passed", "failed"}
              /\ tResult = "passed" <=> (allZero /\ linesOk)
              /\ tResult = "passed" => Len(tRan) = 3
        /\ tPc # "done" => tResult = "running"

\* A test has passed although the validator printed an Error line, about OmniPBR.mdl
C9_Witness ==
    /\ tPc = "done"
    /\ tResult = "passed"
    /\ \E i \in 1..Len(tOutput) : tOutput[i] = <<"Error", "OmniPBR.mdl">>

====
